---- MODULE Spec2Model ----
(***************************************************************************)
(* Planner cost model of the ivfflat access method (src/src/ivfflat.c):   *)
(* the three settings registered by IvfflatInit, the probe estimate of    *)
(* EstimateProbes and the cost arithmetic of ivfflatcostestimate.          *)
(*                                                                         *)
(* Every double of the estimator (selectivities, tuplesPerList, the        *)
(* quotient of line 100, ratio, numIndexTuples, page counts of the generic *)
(* estimator, page costs and total cost) is an IEEE-754 double with        *)
(* round-to-nearest-even, gradual underflow and overflow to infinity,      *)
(* built from 28-bit halves of the significand so that no intermediate     *)
(* value leaves 32 bits.  Tuple counts, limits and relation pages are      *)
(* whole numbers converted to double where the code does.  The C int keeps *)
(* its 32-bit width: a quotient above INT_MAX makes the conversion of line *)
(* 100 undefined, modelled as a choice between the two results hardware    *)
(* conversions produce (INT_MIN and INT_MAX).                              *)
(***************************************************************************)
EXTENDS Integers, Sequences, FiniteSets, TLC

VARIABLES ivfflat_probes, ivfflat_max_probes, ivfflat_streaming, pc, path, res

vars == <<ivfflat_probes, ivfflat_max_probes, ivfflat_streaming, pc, path, res>>

\* ---------------------------------------------------------------- bounds
MaxLists == 3
MaxLimit == 3
MaxTuples == 3
MaxConds == 3
MaxPages == 3
MaxPageCost == 4
HugeLimit == 1073741824

\* ------------------------------------------------------ program constants
IVFFLAT_MIN_LISTS == 1
IVFFLAT_DEFAULT_PROBES == 1
UNBOUNDED_PROBES == -1
INT_MAX == 2147483647
INT_MIN == (-2147483647) - 1

Abs(x) == IF x < 0 THEN -x ELSE x

Max(a, b) == IF a > b THEN a ELSE b

Min(a, b) == IF a < b THEN a ELSE b

\* ------------------------------------------------------- IEEE-754 doubles
\* A double is <<sign, exponent, hi, lo>> and stands for
\* sign * (hi * 2^28 + lo) * 2^exponent.  A normal number has its 53-bit
\* significand hi * 2^28 + lo in [2^52, 2^53) and its exponent in
\* MinExp..MaxExp; a subnormal number has the exponent MinExp and a smaller
\* significand; the zeros are <<1, 0, 0, 0>> and <<-1, 0, 0, 0>>, the
\* infinities <<1, MaxExp + 1, 2^24, 0>> and <<-1, MaxExp + 1, 2^24, 0>>.
\* Every operation rounds to nearest, ties to even, as the default rounding
\* mode does, underflows gradually to the subnormals and to zero and
\* overflows to infinity.  The operands of the arithmetic operations are
\* finite (no NaN arises from them, every divisor being non-zero).
\* Intermediate values are handed on as operator arguments, in digits of 14
\* or 28 bits, so that none leaves 32 bits.
B14 == 16384

B28 == 268435456

MinExp == -1074

MaxExp == 971

Zero == <<1, 0, 0, 0>>

Inf(s) == <<s, MaxExp + 1, 2^24, 0>>

IsZero(a) == a[3] = 0 /\ a[4] = 0

FNeg(a) == <<-a[1], a[2], a[3], a[4]>>

RECURSIVE BitLen(_)
BitLen(a) == IF a < 2 THEN 1 ELSE 1 + BitLen(a \div 2)

\* number of bits of hi * 2^28 + lo
SigLen(hi, lo) == IF hi > 0 THEN 28 + BitLen(hi) ELSE BitLen(lo)

\* (hi * 2^28 + lo) * 2^n as <<hi, lo>>, the result having at most 56 bits
ShiftLeft(hi, lo, n) ==
    IF n >= 28 THEN <<lo * 2^(n - 28), 0>>
    ELSE <<hi * 2^n + lo \div 2^(28 - n), (lo % 2^(28 - n)) * 2^n>>

\* the double s * a for 0 < a < 2^31, a * 2^shift having 53 bits
Normal(s, a, shift) ==
    IF shift >= 28
    THEN <<s, -shift, a * 2^(shift - 28), 0>>
    ELSE <<s, -shift, a \div 2^(28 - shift), (a % 2^(28 - shift)) * 2^shift>>

\* (double) n for an int n above INT_MIN
FromInt(n) ==
    IF n = 0 THEN Zero
    ELSE Normal(IF n < 0 THEN -1 ELSE 1, Abs(n), 53 - BitLen(Abs(n)))

Shifted(s, e, p) == <<s, e, p[1], p[2]>>

\* a non-zero double with its significand brought to 53 bits, the exponent
\* of a subnormal going below MinExp
Normalize(a) ==
    IF a[3] >= 2^24 THEN a
    ELSE Shifted(a[1], a[2] - (53 - SigLen(a[3], a[4])),
                 ShiftLeft(a[3], a[4], 53 - SigLen(a[3], a[4])))

\* round the significand hi:lo, followed by a guard bit and a sticky flag
RoundNearestEven(s, e, hi, lo, guard, sticky) ==
    IF guard = 1 /\ (sticky \/ lo % 2 = 1)
    THEN IF lo + 1 < B28 THEN <<s, e, hi, lo + 1>>
         ELSE IF hi + 1 < 2^25 THEN <<s, e, hi + 1, 0>>
         ELSE <<s, e + 1, 2^24, 0>>
    ELSE <<s, e, hi, lo>>

\* a 53-bit significand shifted right by k > 0 bits:
\* <<hi, lo, guard bit, sticky flag>>
SigShiftRight(hi, lo, k) ==
    IF k >= 54 THEN <<0, 0, 0, TRUE>>
    ELSE IF k >= 29
    THEN <<0, hi \div 2^(k - 28), (hi \div 2^(k - 29)) % 2,
           hi % 2^(k - 29) # 0 \/ lo # 0>>
    ELSE IF k = 28 THEN <<0, hi, lo \div 2^27, lo % 2^27 # 0>>
    ELSE <<hi \div 2^k, (hi % 2^k) * 2^(28 - k) + lo \div 2^k,
           (lo \div 2^(k - 1)) % 2, lo % 2^(k - 1) # 0>>

\* a rounded result: zero in its one form, infinity above MaxExp
Ranged(d) ==
    IF IsZero(d) THEN <<d[1], 0, 0, 0>>
    ELSE IF d[2] > MaxExp THEN Inf(d[1])
    ELSE d

Subnormal(s, r, rest) ==
    Ranged(RoundNearestEven(s, MinExp, r[1], r[2], r[3], r[4] \/ rest))

\* the double nearest to the exact result whose leading 53 bits are hi:lo at
\* exponent e, followed by a guard bit and a sticky flag
Finish(s, e, hi, lo, guard, sticky) ==
    IF e < MinExp
    THEN Subnormal(s, SigShiftRight(hi, lo, MinExp - e), guard = 1 \/ sticky)
    ELSE Ranged(RoundNearestEven(s, e, hi, lo, guard, sticky))

\* the 14-bit digits of a significand, least significant first
Limbs(a) == <<a[4] % B14, a[4] \div B14, a[3] % B14, a[3] \div B14>>

\* column sums of the digit-by-digit product, least significant first
Columns(x, y) ==
    <<x[1] * y[1],
      x[1] * y[2] + x[2] * y[1],
      x[1] * y[3] + x[2] * y[2] + x[3] * y[1],
      x[1] * y[4] + x[2] * y[3] + x[3] * y[2] + x[4] * y[1],
      x[2] * y[4] + x[3] * y[3] + x[4] * y[2],
      x[3] * y[4] + x[4] * y[3],
      x[4] * y[4]>>

\* carry propagation: the 14-bit digits of the number whose columns are cols,
\* least significant first, followed by the last carry
RECURSIVE Propagate(_, _)
Propagate(cols, carry) ==
    IF cols = <<>> THEN <<carry>>
    ELSE <<(Head(cols) + carry) % B14>>
            \o Propagate(Tail(cols), (Head(cols) + carry) \div B14)

\* round the 106-bit product p3:p2:p1:p0 (28 bits each below p3) to 53 bits
MulRound(s, e, p0, p1, p2, p3) ==
    IF p3 >= 2^21
    THEN Finish(s, e + 53, p3 * 8 + p2 \div 2^25,
                (p2 % 2^25) * 8 + p1 \div 2^25,
                (p1 \div 2^24) % 2,
                p1 % 2^24 # 0 \/ p0 # 0)
    ELSE Finish(s, e + 52, p3 * 16 + p2 \div 2^24,
                (p2 % 2^24) * 16 + p1 \div 2^24,
                (p1 \div 2^23) % 2,
                p1 % 2^23 # 0 \/ p0 # 0)

MulDigits(s, e, d) ==
    MulRound(s, e, d[1] + d[2] * B14, d[3] + d[4] * B14, d[5] + d[6] * B14,
             d[7] + d[8] * B14)

MulNormal(a, b) ==
    MulDigits(a[1] * b[1], a[2] + b[2], Propagate(Columns(Limbs(a), Limbs(b)), 0))

\* a * b on doubles
FMul(a, b) ==
    IF IsZero(a) \/ IsZero(b) THEN <<a[1] * b[1], 0, 0, 0>>
    ELSE MulNormal(Normalize(a), Normalize(b))

\* h * 2^28 + l as four 14-bit digits, most significant first
Quad(h, l) == <<h \div B14, h % B14, l \div B14, l % B14>>

\* 8 * (hi * 2^28 + lo) as <<high 28 bits, low 28 bits>>
Ext(hi, lo) == <<hi * 8 + lo \div 2^25, (lo % 2^25) * 8>>

\* 8 * (hi * 2^28 + lo) as four 14-bit digits, most significant first
Digits(hi, lo) == Quad(hi * 8 + lo \div 2^25, (lo % 2^25) * 8)

\* digits, least significant first, to <<top 28 bits, middle 28 bits, low 14 bits>>
Pack(d) == <<d[4] + d[5] * B14, d[3] * B14 + d[2], d[1]>>

\* q * v in that form, for a digit q and four digits v
DigitTimes(q, v) == Pack(Propagate(<<q * v[4], q * v[3], q * v[2], q * v[1]>>, 0))

\* p exceeds the numerator nh:nm:0
Exceeds(p, nh, nm) ==
    p[1] > nh \/ (p[1] = nh /\ (p[2] > nm \/ (p[2] = nm /\ p[3] > 0)))

\* the digit q followed by the four digits of the remainder th:tm:tl
Borrowed(q, th, tm, tl) ==
    IF tm < 0 THEN <<q, th - 1, (tm + B28) \div B14, (tm + B28) % B14, tl>>
    ELSE <<q, th, tm \div B14, tm % B14, tl>>

\* nh:nm:0 minus p = q * v
Remainder(q, nh, nm, p) ==
    IF p[3] > 0 THEN Borrowed(q, nh - p[1], nm - p[2] - 1, B14 - p[3])
    ELSE Borrowed(q, nh - p[1], nm - p[2], 0)

\* the trial digit is at most two too large
DivCorrect(nh, nm, v, trial) ==
    IF ~Exceeds(DigitTimes(trial, v), nh, nm)
    THEN Remainder(trial, nh, nm, DigitTimes(trial, v))
    ELSE IF ~Exceeds(DigitTimes(trial - 1, v), nh, nm)
    THEN Remainder(trial - 1, nh, nm, DigitTimes(trial - 1, v))
    ELSE Remainder(trial - 2, nh, nm, DigitTimes(trial - 2, v))

DivTrial(nh, nm, v) ==
    DivCorrect(nh, nm, v, IF nh \div v[1] < B14 THEN nh \div v[1] ELSE B14 - 1)

\* long division of significands, one base-2^14 digit at a time (schoolbook
\* division with a trial digit from the leading digits, corrected downward):
\* for u < v the digit floor(u * 2^14 / v) followed by the remainder
DivDigit(u, v) == DivTrial(u[1] * B14 + u[2], u[3] * B14 + u[4], v)

\* n more quotient digits after the step d: <<digits, last remainder>>
RECURSIVE LongDivision(_, _, _, _)
LongDivision(d, v, n, qs) ==
    IF n = 0 THEN <<Append(qs, d[1]), Tail(d)>>
    ELSE LongDivision(DivDigit(Tail(d), v), v, n - 1, Append(qs, d[1]))

\* significand of a at least that of b
SigGE(a, b) == a[3] > b[3] \/ (a[3] = b[3] /\ a[4] >= b[4])

\* x - y on <<high 28 bits, low 28 bits>>, x >= y
SubSig(x, y) ==
    IF x[2] >= y[2] THEN <<x[1] - y[1], x[2] - y[2]>>
    ELSE <<x[1] - y[1] - 1, x[2] + B28 - y[2]>>

\* 8 * (significand of a - significand of b)
SigDiff(a, b) ==
    IF a[4] >= b[4] THEN Digits(a[3] - b[3], a[4] - b[4])
    ELSE Digits(a[3] - b[3] - 1, a[4] + B28 - b[4])

\* quotient 1.qh:ql of 56 fraction bits, rest telling of a remainder
DivRoundGE(s, e, qh, ql, rest) ==
    Finish(s, e, 2^24 + qh \div 16, (qh % 16) * 2^24 + ql \div 16,
           (ql \div 8) % 2, ql % 8 # 0 \/ rest)

\* quotient 0.qh:ql of 56 fraction bits, the first of them 1
DivRoundLT(s, e, qh, ql, rest) ==
    Finish(s, e, qh \div 8, (qh % 8) * 2^25 + ql \div 8,
           (ql \div 4) % 2, ql % 4 # 0 \/ rest)

DivGE(s, e, r) ==
    DivRoundGE(s, e, r[1][1] * B14 + r[1][2], r[1][3] * B14 + r[1][4],
               r[2] # <<0, 0, 0, 0>>)

DivLT(s, e, r) ==
    DivRoundLT(s, e, r[1][1] * B14 + r[1][2], r[1][3] * B14 + r[1][4],
               r[2] # <<0, 0, 0, 0>>)

DivSig(u, v) == LongDivision(DivDigit(u, v), v, 3, <<>>)

DivNormal(a, b) ==
    IF SigGE(a, b)
    THEN DivGE(a[1] * b[1], a[2] - b[2] - 52,
               DivSig(SigDiff(a, b), Digits(b[3], b[4])))
    ELSE DivLT(a[1] * b[1], a[2] - b[2] - 53,
               DivSig(Digits(a[3], a[4]), Digits(b[3], b[4])))

\* a / b on doubles, b not zero
FDiv(a, b) ==
    IF IsZero(a) THEN <<a[1] * b[1], 0, 0, 0>>
    ELSE DivNormal(Normalize(a), Normalize(b))

\* |a| < |b| for doubles in the forms above, or both brought to 53 bits
MagLT(a, b) ==
    IF IsZero(b) THEN FALSE
    ELSE IF IsZero(a) THEN TRUE
    ELSE \/ a[2] < b[2]
         \/ a[2] = b[2] /\ (a[3] < b[3] \/ (a[3] = b[3] /\ a[4] < b[4]))

\* a == b, a < b and a <= b on doubles
FEq(a, b) == a = b \/ (IsZero(a) /\ IsZero(b))

FLT(a, b) ==
    IF IsZero(a) /\ IsZero(b) THEN FALSE
    ELSE IF a[1] # b[1] THEN a[1] < b[1]
    ELSE IF a[1] = 1 THEN MagLT(a, b) ELSE MagLT(b, a)

FLE(a, b) == FEq(a, b) \/ FLT(a, b)

\* x with its last bit set when bits were lost below it
Or1(x, lost) == IF lost /\ x % 2 = 0 THEN x + 1 ELSE x

\* <<high 28 bits, low 28 bits>> shifted right by d >= 0 bits, sticky
AlignRight(x, d) ==
    IF d >= 56 THEN <<0, 1>>
    ELSE IF d >= 28
    THEN <<0, Or1(x[1] \div 2^(d - 28), x[1] % 2^(d - 28) # 0 \/ x[2] # 0)>>
    ELSE <<x[1] \div 2^d,
           Or1((x[1] % 2^d) * 2^(28 - d) + x[2] \div 2^d, x[2] % 2^d # 0)>>

AddSig(x, y) ==
    <<x[1] + y[1] + (x[2] + y[2]) \div B28, (x[2] + y[2]) % B28>>

\* round 56 bits x, of which the last three are guard, round and sticky
FinishExt(s, e, x) ==
    Finish(s, e, x[1] \div 8, (x[1] % 8) * 2^25 + x[2] \div 8,
           (x[2] \div 4) % 2, x[2] % 4 # 0)

\* the sum of two magnitudes, of 56 or 57 bits
FinishSum(s, e, x) ==
    IF x[1] >= B28
    THEN FinishExt(s, e + 1, <<x[1] \div 2, Or1((x[1] % 2) * 2^27 + x[2] \div 2,
                                                x[2] % 2 = 1)>>)
    ELSE FinishExt(s, e, x)

\* the difference of two magnitudes, of up to 56 bits
FinishDiff(s, e, x) ==
    IF x = <<0, 0>> THEN Zero
    ELSE FinishExt(s, e - (56 - SigLen(x[1], x[2])),
                   ShiftLeft(x[1], x[2], 56 - SigLen(x[1], x[2])))

\* a + b for |a| >= |b|, both with 53-bit significands
AddOrdered(a, b) ==
    IF a[1] = b[1]
    THEN FinishSum(a[1], a[2],
                   AddSig(Ext(a[3], a[4]), AlignRight(Ext(b[3], b[4]), a[2] - b[2])))
    ELSE FinishDiff(a[1], a[2],
                    SubSig(Ext(a[3], a[4]), AlignRight(Ext(b[3], b[4]), a[2] - b[2])))

AddNormal(a, b) == IF MagLT(a, b) THEN AddOrdered(b, a) ELSE AddOrdered(a, b)

\* a + b and a - b on doubles
FAdd(a, b) ==
    IF IsZero(a)
    THEN IF IsZero(b) THEN <<IF a[1] = -1 /\ b[1] = -1 THEN -1 ELSE 1, 0, 0, 0>>
         ELSE b
    ELSE IF IsZero(b) THEN a
    ELSE AddNormal(Normalize(a), Normalize(b))

FSub(a, b) == FAdd(a, FNeg(b))

\* (int) d for a double d >= 0: the value truncated toward zero; ovf tells
\* that it exceeds INT_MAX, frac that d is not a whole number
Truncate(d) ==
    IF IsZero(d) THEN [ovf |-> FALSE, frac |-> FALSE, val |-> 0]
    ELSE IF d[2] > -22 THEN [ovf |-> TRUE, frac |-> FALSE, val |-> 0]
    ELSE IF d[2] < -52 THEN [ovf |-> FALSE, frac |-> TRUE, val |-> 0]
    ELSE IF -d[2] >= 28
         THEN [ovf |-> FALSE,
               frac |-> d[4] # 0 \/ d[3] % 2^((-d[2]) - 28) # 0,
               val |-> d[3] \div 2^((-d[2]) - 28)]
         ELSE [ovf |-> FALSE,
               frac |-> d[4] % 2^(-d[2]) # 0,
               val |-> d[3] * 2^(28 + d[2]) + d[4] \div 2^(-d[2])]

One == FromInt(1)

\* the double nearest to n / d, i.e. the value of a literal such as 0.5 or 0.2
Dec(n, d) == FDiv(FromInt(n), FromInt(d))

Half == Dec(1, 2)

\* get_float8_infinity()
Infinity == Inf(1)

\* (Selectivity) DEFAULT_INEQ_SEL, 0.3333333333333333
DEFAULT_INEQ_SEL == Dec(1, 3)

\* ---------------------------------------------------------- EstimateProbes
\* line 91: the condition under which a restriction's selectivity is used
QualifiesNoPlaceholderTest(s) == FLE(Zero, s) /\ FLE(s, One)

Qualifies(s) == FLE(Zero, s) /\ FLE(s, One) /\ ~FEq(s, DEFAULT_INEQ_SEL)

\* lines 76, 86-93: selectivity = 1; foreach(lc, indrestrictinfo) ...
RECURSIVE SelectivityLoop(_, _)
SelectivityLoop(selectivity, conds) ==
    IF conds = <<>> THEN selectivity
    ELSE SelectivityLoop(IF Qualifies(Head(conds))
                            THEN FMul(selectivity, Head(conds))
                            ELSE selectivity,
                         Tail(conds))

CombinedSelectivity(conds) == SelectivityLoop(One, conds)

\* line 95: tuplesPerList = tuples * selectivity / (double) lists
TuplesPerList(tuples, selectivity, lists) ==
    FDiv(FMul(FromInt(tuples), selectivity), FromInt(lists))

\* line 100: the double limit_tuples / tuplesPerList
Quotient(limit_tuples, tuplesPerList) == FDiv(FromInt(limit_tuples), tuplesPerList)

\* line 100: conversion of the double quotient to the int return value
DoubleToInt(q) == IF Truncate(q).ovf THEN {INT_MIN, INT_MAX} ELSE {Truncate(q).val}

\* line 82-83
NoLimitResultLists(lists) == lists

NoLimitResult(lists) == 0

\* line 96-97
ZeroYieldResultNone(lists) == 0

ZeroYieldResult(lists) == lists

\* lines 73-101: the set of values the call can return
EstimateProbes(limit_tuples, tuples, conds, lists) ==
    IF limit_tuples < 0 THEN {NoLimitResult(lists)}
    ELSE LET tuplesPerList == TuplesPerList(tuples, CombinedSelectivity(conds), lists)
         IN IF IsZero(tuplesPerList) THEN {ZeroYieldResult(lists)}
            ELSE DoubleToInt(Quotient(limit_tuples, tuplesPerList))

\* ------------------------------------------------------ ivfflatcostestimate
\* line 120
NoOrderNever(p) == FALSE

NoOrder(p) == ~p.hasOrderBy

\* lines 139-142, the streaming branch
StreamingProbesCeilingFirst(probes, estimate, max_probes) ==
    LET capped == IF max_probes # UNBOUNDED_PROBES THEN Min(probes, max_probes) ELSE probes
    IN Max(capped, estimate)

StreamingProbes(probes, estimate, max_probes) ==
    LET floored == Max(probes, estimate)
    IN IF max_probes # UNBOUNDED_PROBES THEN Min(floored, max_probes) ELSE floored

\* lines 136-143
ProbeCountAlwaysStreaming(probes, streaming, estimate, max_probes) ==
    StreamingProbes(probes, estimate, max_probes)

ProbeCount(probes, streaming, estimate, max_probes) ==
    IF streaming THEN StreamingProbes(probes, estimate, max_probes) ELSE probes

\* lines 146-148
RatioIntegerDivision(probes, lists) ==
    IF probes \div lists > 1 THEN One ELSE FromInt(probes \div lists)

Ratio(probes, lists) ==
    IF FLT(One, FDiv(FromInt(probes), FromInt(lists))) THEN One
    ELSE FDiv(FromInt(probes), FromInt(lists))

\* lines 162-174; relpages is a BlockNumber, the other operands are doubles
AdjustedTotalCostAddExtra(total, numIndexPages, relpages, random, seq, ratio) ==
    IF FLT(FromInt(relpages), numIndexPages) /\ FLT(ratio, Half)
    THEN FAdd(FSub(total, FMul(numIndexPages, FSub(random, seq))),
              FMul(FSub(numIndexPages, FromInt(relpages)), seq))
    ELSE FSub(total, FMul(FMul(Half, numIndexPages), FSub(random, seq)))

AdjustedTotalCost(total, numIndexPages, relpages, random, seq, ratio) ==
    IF FLT(FromInt(relpages), numIndexPages) /\ FLT(ratio, Half)
    THEN FSub(FSub(total, FMul(numIndexPages, FSub(random, seq))),
              FMul(FSub(numIndexPages, FromInt(relpages)), seq))
    ELSE FSub(total, FMul(FMul(Half, numIndexPages), FSub(random, seq)))

\* lines 180-181
ReportedSelectivity(ratio, indexSelectivity) ==
    IF FLT(ratio, indexSelectivity) THEN ratio ELSE indexSelectivity

\* the values the planner reads back when no estimate is pending
NoPath == [hasOrderBy |-> FALSE, lists |-> IVFFLAT_MIN_LISTS, limit_tuples |-> -1,
           tuples |-> 0, indrestrictinfo |-> <<>>, relpages |-> 0,
           numIndexPages |-> Zero, genericTotalCost |-> Zero,
           genericSelectivity |-> Zero,
           spc_random_page_cost |-> Zero, spc_seq_page_cost |-> Zero]

NoRes == [opened |-> FALSE, lists |-> 0, estimated |-> FALSE, estimate |-> 0,
          selectivity |-> One, tuplesPerList |-> Zero, quotient |-> Zero,
          probes |-> 0, ratio |-> Zero, numIndexTuples |-> Zero,
          indexStartupCost |-> Zero, indexTotalCost |-> Zero,
          indexSelectivity |-> Zero, indexCorrelation |-> 0, indexPages |-> Zero]

\* lines 119-128
NeverUsable ==
    [NoRes EXCEPT !.indexStartupCost = Infinity, !.indexTotalCost = Infinity,
                  !.indexSelectivity = Zero, !.indexCorrelation = 0,
                  !.indexPages = Zero]

\* lines 130-188 for one value returned by EstimateProbes (estimate is unused
\* when streaming is off); selectivity, tuplesPerList and quotient record the
\* locals of EstimateProbes as far as the call computed them.  The
\* correlation is the 0 of the MemSet of line 130, which genericcostestimate
\* leaves alone.
Estimated(p, probesGuc, maxGuc, streaming, estimate) ==
    LET lists == p.lists
        looped == streaming /\ p.limit_tuples >= 0
        selectivity == IF looped THEN CombinedSelectivity(p.indrestrictinfo) ELSE One
        tuplesPerList == IF looped THEN TuplesPerList(p.tuples, selectivity, lists) ELSE Zero
        probes == ProbeCount(probesGuc, streaming, estimate, maxGuc)
        ratio == Ratio(probes, lists)
        total == AdjustedTotalCost(p.genericTotalCost, p.numIndexPages, p.relpages,
                                   p.spc_random_page_cost, p.spc_seq_page_cost, ratio)
    IN [opened |-> TRUE, lists |-> lists, estimated |-> streaming,
        estimate |-> IF streaming THEN estimate ELSE 0,
        selectivity |-> selectivity,
        tuplesPerList |-> tuplesPerList,
        quotient |-> IF looped /\ ~IsZero(tuplesPerList)
                        THEN Quotient(p.limit_tuples, tuplesPerList) ELSE Zero,
        probes |-> probes, ratio |-> ratio,
        numIndexTuples |-> FMul(FromInt(p.tuples), ratio),
        indexStartupCost |-> total, indexTotalCost |-> total,
        indexSelectivity |-> ReportedSelectivity(ratio, p.genericSelectivity),
        indexCorrelation |-> 0, indexPages |-> p.numIndexPages]

\* lines 106-189: every result the call can produce
CostEstimate(p, probesGuc, maxGuc, streaming) ==
    IF NoOrder(p) THEN {NeverUsable}
    ELSE IF streaming
         THEN {Estimated(p, probesGuc, maxGuc, streaming, e) :
                 e \in EstimateProbes(p.limit_tuples, p.tuples, p.indrestrictinfo, p.lists)}
         ELSE {Estimated(p, probesGuc, maxGuc, streaming, 0)}

\* ------------------------------------------------------------ input sets
ListCounts == IVFFLAT_MIN_LISTS..MaxLists

Limits == (-1..MaxLimit) \cup {HugeLimit}

\* 2^-1060, a selectivity whose products underflow
Tiny == <<1, -1112, 2^24, 0>>

\* 2^60, a cost that absorbs small subtractions
Big == <<1, 8, 2^24, 0>>

\* 0, 0.5, 0.2, 0.3, the placeholder, 2.0, -0.5 and 2^-1060
SelValues ==
    {Zero, Half, Dec(1, 5), Dec(3, 10), DEFAULT_INEQ_SEL, FromInt(2), Dec(-1, 2), Tiny}

\* the values in [0, 1], the placeholder among them
FilterValues == {Zero, Half, Dec(1, 5), Dec(3, 10), DEFAULT_INEQ_SEL, Tiny}

\* restriction lists: any single selectivity, and up to MaxConds of FilterValues
CondLists ==
    [1..1 -> SelValues] \cup UNION {[1..n -> FilterValues] : n \in 0..MaxConds}

\* 0, 1, the largest whole page cost, and 1.1
PageCosts == {Zero, One, FromInt(MaxPageCost), Dec(11, 10)}

TotalCost == FromInt(2 * MaxPages * MaxPageCost)

\* queries that exercise the probe estimate
ProbeQueries ==
    [hasOrderBy : {TRUE}, lists : ListCounts, limit_tuples : Limits,
     tuples : 0..MaxTuples, indrestrictinfo : {c \in CondLists : Len(c) <= 1},
     relpages : {0}, numIndexPages : {One}, genericTotalCost : {TotalCost},
     genericSelectivity : {Half}, spc_random_page_cost : {FromInt(MaxPageCost)},
     spc_seq_page_cost : {One}]

\* queries that exercise the selectivity loop
FilterQueries ==
    [hasOrderBy : {TRUE}, lists : {MaxLists}, limit_tuples : {MaxLimit},
     tuples : {MaxTuples}, indrestrictinfo : CondLists,
     relpages : {0}, numIndexPages : {One}, genericTotalCost : {TotalCost},
     genericSelectivity : {Half}, spc_random_page_cost : {FromInt(MaxPageCost)},
     spc_seq_page_cost : {One}]

\* queries that exercise the page-cost arithmetic
CostQueries ==
    [hasOrderBy : {TRUE}, lists : {IVFFLAT_MIN_LISTS, MaxLists}, limit_tuples : {-1},
     tuples : {MaxTuples}, indrestrictinfo : {<<>>},
     relpages : 0..MaxPages, numIndexPages : {FromInt(n) : n \in 0..MaxPages},
     genericTotalCost : {TotalCost, Big},
     genericSelectivity : {Half},
     spc_random_page_cost : PageCosts, spc_seq_page_cost : PageCosts]

\* queries without ORDER BY
UnorderedQueries ==
    [hasOrderBy : {FALSE}, lists : ListCounts, limit_tuples : {-1, MaxLimit},
     tuples : {0, MaxTuples}, indrestrictinfo : {<<>>, <<Half>>},
     relpages : {0}, numIndexPages : {Zero, FromInt(MaxPages)},
     genericTotalCost : {TotalCost},
     genericSelectivity : {Half}, spc_random_page_cost : {FromInt(MaxPageCost)},
     spc_seq_page_cost : {One}]

Queries == ProbeQueries \cup FilterQueries \cup CostQueries \cup UnorderedQueries

\* ---------------------------------------------------------------- actions
\* lines 34-44: the settings after IvfflatInit
Init ==
    /\ ivfflat_probes = IVFFLAT_DEFAULT_PROBES
    /\ ivfflat_max_probes = UNBOUNDED_PROBES
    /\ ivfflat_streaming \in BOOLEAN
    /\ pc = "idle"
    /\ path = NoPath
    /\ res = NoRes

\* SET ivfflat.probes, range of line 36
SetProbes ==
    /\ pc = "idle"
    /\ \E v \in IVFFLAT_MIN_LISTS..MaxLists : ivfflat_probes' = v
    /\ UNCHANGED <<ivfflat_max_probes, ivfflat_streaming, pc, path, res>>

\* SET / RESET ivfflat.max_probes, range and boot value of line 40
SetMaxProbes ==
    /\ pc = "idle"
    /\ \E v \in (IVFFLAT_MIN_LISTS..MaxLists) \cup {UNBOUNDED_PROBES} :
          ivfflat_max_probes' = v
    /\ UNCHANGED <<ivfflat_probes, ivfflat_streaming, pc, path, res>>

\* SET ivfflat.streaming, line 42
SetStreaming ==
    /\ pc = "idle"
    /\ \E v \in BOOLEAN : ivfflat_streaming' = v
    /\ UNCHANGED <<ivfflat_probes, ivfflat_max_probes, pc, path, res>>

\* the planner calls amcostestimate (line 263) for a candidate path
ivfflatcostestimate ==
    /\ pc = "idle"
    /\ \E p \in Queries :
          /\ path' = p
          /\ res' \in CostEstimate(p, ivfflat_probes, ivfflat_max_probes, ivfflat_streaming)
    /\ pc' = "estimated"
    /\ UNCHANGED <<ivfflat_probes, ivfflat_max_probes, ivfflat_streaming>>

\* the planner takes the five outputs and drops the path
PlannerReturn ==
    /\ pc = "estimated"
    /\ pc' = "idle"
    /\ path' = NoPath
    /\ res' = NoRes
    /\ UNCHANGED <<ivfflat_probes, ivfflat_max_probes, ivfflat_streaming>>

Next ==
    \/ SetProbes
    \/ SetMaxProbes
    \/ SetStreaming
    \/ ivfflatcostestimate
    \/ PlannerReturn

Spec == Init /\ [][Next]_vars

TypeOK ==
    /\ ivfflat_probes \in IVFFLAT_MIN_LISTS..MaxLists
    /\ ivfflat_max_probes \in (IVFFLAT_MIN_LISTS..MaxLists) \cup {UNBOUNDED_PROBES}
    /\ ivfflat_streaming \in BOOLEAN
    /\ pc \in {"idle", "estimated"}

\* ------------------------------------------------------------- properties
Done == pc = "estimated"

\* the estimator got past the ORDER BY test and read the list count
Costed == Done /\ res.opened

\* C1: a path without ORDER BY gets infinite startup and total cost, zero
\* selectivity, correlation and pages, and the index is neither opened nor is
\* its list count read.
C1_NeverUsableWithoutOrder ==
    (Done /\ ~path.hasOrderBy) =>
        /\ res.indexStartupCost = Infinity
        /\ res.indexTotalCost = Infinity
        /\ res.indexSelectivity = Zero
        /\ res.indexCorrelation = 0
        /\ res.indexPages = Zero
        /\ ~res.opened
        /\ res.lists = 0

C1_Witness ==
    /\ Done /\ ~path.hasOrderBy /\ res.indexTotalCost = Infinity
    /\ path.lists = MaxLists /\ FLT(Zero, path.numIndexPages)
    /\ ivfflat_streaming /\ ivfflat_probes > 1 /\ ivfflat_max_probes # UNBOUNDED_PROBES

\* C2 as stated: the probe count divided by the list count is in 1..lists.
C2_Original == Costed => (1 <= res.probes /\ res.probes <= path.lists)

\* C2 amended: the probe count is at least 1 and may exceed the list count;
\* the ratio is clamped instead, so it is the double min(probes, lists) / lists
\* and lies in (0, 1].
C2_ProbesPositiveRatioClamped ==
    Costed =>
        /\ res.probes >= 1
        /\ FLT(Zero, res.ratio) /\ FLE(res.ratio, One)
        /\ res.ratio = FDiv(FromInt(Min(res.probes, path.lists)), FromInt(path.lists))

C2_Witness ==
    /\ Costed /\ res.probes > path.lists /\ res.ratio = One
    /\ ivfflat_streaming /\ path.limit_tuples >= 0

\* C3 as stated: without streaming the probe count is min(probes, lists).
C3_Original ==
    (Costed /\ ~ivfflat_streaming) => res.probes = Min(ivfflat_probes, path.lists)

\* C3 amended: without streaming the probe count is the configured probes,
\* not clamped to the list count, whatever the limit, the filters, the tuple
\* count and max_probes are; the ratio is the double min(probes, lists) / lists.
C3_FixedProbesWithoutStreaming ==
    (Costed /\ ~ivfflat_streaming) =>
        /\ res.probes = ivfflat_probes
        /\ res.ratio = FDiv(FromInt(Min(ivfflat_probes, path.lists)), FromInt(path.lists))

C3_Witness ==
    /\ Costed /\ ~ivfflat_streaming /\ res.probes = ivfflat_probes
    /\ ivfflat_max_probes # UNBOUNDED_PROBES /\ ivfflat_max_probes < ivfflat_probes
    /\ path.limit_tuples > 0 /\ path.tuples > 0 /\ path.indrestrictinfo # <<>>

\* C4 as stated: streaming with a negative limit gives the probe count of
\* the same settings without streaming, for every max_probes.
C4_Original ==
    (Costed /\ ivfflat_streaming /\ path.limit_tuples < 0) =>
        res.probes = ivfflat_probes

\* C4 amended: streaming with a negative limit makes EstimateProbes return 0,
\* so the floor leaves probes unchanged, but the max_probes ceiling still
\* applies: the probe count is probes when max_probes is -1 and
\* min(probes, max_probes) otherwise.
C4_NegativeLimitKeepsFloorUnderCeiling ==
    (Costed /\ ivfflat_streaming /\ path.limit_tuples < 0) =>
        /\ res.estimate = 0
        /\ res.probes = IF ivfflat_max_probes = UNBOUNDED_PROBES
                           THEN ivfflat_probes
                           ELSE Min(ivfflat_probes, ivfflat_max_probes)

C4_Witness ==
    /\ Costed /\ ivfflat_streaming /\ path.limit_tuples < 0
    /\ ivfflat_max_probes # UNBOUNDED_PROBES /\ ivfflat_max_probes < ivfflat_probes
    /\ res.probes = ivfflat_max_probes /\ path.lists > ivfflat_probes

\* the case C5 and C10 are about: the quotient of line 100 is computed
Adaptive ==
    /\ Costed /\ ivfflat_streaming /\ path.limit_tuples >= 0
    /\ ~IsZero(res.tuplesPerList)

\* C5: the adaptive estimate is ceil(limit_tuples / tuplesPerList), and with
\* max_probes = -1 the probe count is max(probes, that ceiling) (stated for
\* the quotients that fit an int).
C5_Original ==
    (Adaptive /\ ~Truncate(res.quotient).ovf) =>
        LET t == Truncate(res.quotient)
            ceil == IF t.frac THEN t.val + 1 ELSE t.val
        IN /\ res.estimate = ceil
           /\ (ivfflat_max_probes = UNBOUNDED_PROBES =>
                   res.probes = Max(ivfflat_probes, ceil))

\* C6 as stated: zero rows per list makes the probe count lists and the
\* ratio 1 for every probes and max_probes.
C6_Original ==
    (Costed /\ ivfflat_streaming /\ path.limit_tuples >= 0
        /\ IsZero(res.tuplesPerList)) =>
        (res.probes = path.lists /\ res.ratio = One)

\* C6 amended: zero rows per list makes EstimateProbes return lists; the
\* probe count is max(probes, lists), cut to max_probes when that is set, and
\* the ratio is 1 exactly when max_probes is -1 or at least lists.
C6_ZeroYieldProbesAllListsUnderCeiling ==
    (Costed /\ ivfflat_streaming /\ path.limit_tuples >= 0
        /\ IsZero(res.tuplesPerList)) =>
        /\ res.estimate = path.lists
        /\ res.probes = IF ivfflat_max_probes = UNBOUNDED_PROBES
                           THEN Max(ivfflat_probes, path.lists)
                           ELSE Min(Max(ivfflat_probes, path.lists), ivfflat_max_probes)
        /\ (res.ratio = One <=>
               (ivfflat_max_probes = UNBOUNDED_PROBES \/ ivfflat_max_probes >= path.lists))

C6_Witness ==
    /\ Costed /\ ivfflat_streaming /\ path.limit_tuples >= 0
    /\ path.tuples > 0 /\ path.indrestrictinfo = <<Tiny, Tiny>>
    /\ res.selectivity = Zero /\ IsZero(res.tuplesPerList)
    /\ ivfflat_max_probes # UNBOUNDED_PROBES /\ ivfflat_max_probes < path.lists
    /\ res.probes = ivfflat_max_probes /\ FLT(res.ratio, One)

\* C7: with streaming and max_probes set, the probe count is
\* min(max(probes, estimate), max_probes) and never exceeds max_probes.
C7_CeilingAfterFloor ==
    (Costed /\ ivfflat_streaming /\ ivfflat_max_probes # UNBOUNDED_PROBES) =>
        /\ res.probes = Min(Max(ivfflat_probes, res.estimate), ivfflat_max_probes)
        /\ res.probes <= ivfflat_max_probes

C7_Witness ==
    /\ Costed /\ ivfflat_streaming /\ ivfflat_max_probes # UNBOUNDED_PROBES
    /\ ivfflat_probes > ivfflat_max_probes /\ res.estimate > ivfflat_max_probes
    /\ res.probes = ivfflat_max_probes /\ path.limit_tuples >= 0

\* the case C8 is about: the branch of lines 163-169
AllSequential ==
    /\ Costed
    /\ FLT(FromInt(path.relpages), path.numIndexPages)
    /\ FLT(res.ratio, Half)

\* a double that is a whole number in 0..2^20; sums and products of a few
\* of them are exact
Whole(d) ==
    /\ FLE(Zero, d)
    /\ ~Truncate(d).ovf /\ ~Truncate(d).frac
    /\ Truncate(d).val <= 2^20

WholeCosts ==
    /\ Whole(path.genericTotalCost) /\ Whole(path.numIndexPages)
    /\ Whole(path.spc_random_page_cost) /\ Whole(path.spc_seq_page_cost)

\* C8 as stated: in that branch the total cost is strictly below the cost
\* the generic model returned, for all non-negative page costs.
C8_Original ==
    AllSequential => FLT(res.indexTotalCost, path.genericTotalCost)

\* C8 amended: in that branch the total cost is never above the generic cost
\* when random >= sequential >= 0; on whole-number costs and page counts up
\* to 2^20, where the double arithmetic is exact, it is strictly below the
\* generic cost exactly when numIndexPages * random cost > relation pages *
\* sequential cost, which holds whenever random >= sequential and random > 0.
C8_LowerIffRandomOutweighsSequential ==
    AllSequential =>
        /\ res.indexTotalCost # Infinity
        /\ res.indexStartupCost = res.indexTotalCost
        /\ ((FLE(path.spc_seq_page_cost, path.spc_random_page_cost)
                /\ FLE(Zero, path.spc_seq_page_cost)) =>
               FLE(res.indexTotalCost, path.genericTotalCost))
        /\ (WholeCosts =>
               (FLT(res.indexTotalCost, path.genericTotalCost) <=>
                   Truncate(path.numIndexPages).val
                           * Truncate(path.spc_random_page_cost).val
                       > path.relpages * Truncate(path.spc_seq_page_cost).val))
        /\ ((WholeCosts
                /\ FLE(path.spc_seq_page_cost, path.spc_random_page_cost)
                /\ FLT(Zero, path.spc_random_page_cost)) =>
               FLT(res.indexTotalCost, path.genericTotalCost))

C8_Witness ==
    /\ AllSequential /\ path.relpages > 0 /\ WholeCosts
    /\ FLT(path.spc_seq_page_cost, path.spc_random_page_cost)
    /\ FLT(Zero, path.spc_seq_page_cost)
    /\ FLT(res.indexTotalCost, path.genericTotalCost)

\* the selectivities that lie in [0, 1] and are not the placeholder
Informative(conds) ==
    SelectSeq(conds, LAMBDA s : (s[1] = 1 \/ IsZero(s)) /\ ~MagLT(One, s)
                                   /\ s # Dec(1, 3))

\* the rounded product of a list of doubles taken from left to right
RECURSIVE ProductInOrder(_)
ProductInOrder(s) ==
    IF s = <<>> THEN One
    ELSE FMul(ProductInOrder(SubSeq(s, 1, Len(s) - 1)), s[Len(s)])

Reordered(conds, f) == [i \in DOMAIN conds |-> conds[f[i]]]

\* the selectivity loop has run
Looped == Costed /\ ivfflat_streaming /\ path.limit_tuples >= 0

\* C9 as stated: the combined selectivity is the product of the informative
\* selectivities and does not depend on the order of the conditions.
C9_Original ==
    Looped =>
        \A f \in Permutations(DOMAIN path.indrestrictinfo) :
            CombinedSelectivity(Reordered(path.indrestrictinfo, f)) = res.selectivity

\* C9 amended: the combined selectivity starts at 1 and is the double product,
\* taken in list order, of exactly the selectivities in [0, 1] other than the
\* placeholder; conditions outside that set leave it unchanged; with at most
\* two informative conditions the order does not matter (with more, rounding
\* can make it matter); 0.5 and 0.2 combine to 0.1.
C9_SelectivityIsOrderedProductOfInformative ==
    Looped =>
        LET conds == path.indrestrictinfo
        IN /\ res.selectivity = ProductInOrder(Informative(conds))
           /\ (conds = <<>> => res.selectivity = One)
           /\ (Len(Informative(conds)) <= 2 =>
                  \A f \in Permutations(DOMAIN conds) :
                      CombinedSelectivity(Reordered(conds, f)) = res.selectivity)
           /\ (conds = <<Half, Dec(1, 5)>> => res.selectivity = Dec(1, 10))

C9_Witness ==
    /\ Looped
    /\ Len(path.indrestrictinfo) = 3
    /\ path.indrestrictinfo[1] = DEFAULT_INEQ_SEL
    /\ path.indrestrictinfo[2] = Dec(1, 5)
    /\ path.indrestrictinfo[3] = Half
    /\ res.selectivity = Dec(1, 10)

\* C10: the quotient returned by EstimateProbes fits a 32-bit signed int and
\* the returned value is never negative.
C10_Original ==
    Adaptive =>
        /\ ~Truncate(res.quotient).ovf
        /\ res.estimate >= 0 /\ res.estimate <= INT_MAX
====
